---- MODULE Spec2Model ----
(***************************************************************************)
(* Model of the shared request layer of terraform-provider-modeanalytics:  *)
(* HttpRetry and CheckDeletion (internal/provider/helpers.go) and the      *)
(* Create, Read, Update and Delete handlers of the five resources; of the  *)
(* provider's Configure and its transport (internal/provider/provider.go); *)
(* and of the state CollectionResource writes in Create and in Read.       *)
(*                                                                         *)
(* One provider operation runs at a time.  Time inside CheckDeletion is    *)
(* counted in ticker periods (10 s).  A URL is its scheme and the list of  *)
(* "/"-separated segments that follow "scheme://".                         *)
(***************************************************************************)
EXTENDS Integers, Sequences, FiniteSets, TLC

(* ------------------------------ bounds --------------------------------- *)

\* The clock of one CheckDeletion call stops advancing at MaxNow periods.
MaxNow == 7

\* The requests followed through the client after one provider Configure.
MaxWire == 2

(* ------------------------- program constants --------------------------- *)

attempts == 9
sleep == 10
TickSeconds == 10
TimeoutSeconds == 60
TimeoutTicks == TimeoutSeconds \div TickSeconds

StatusOK == 200
StatusForbidden == 403
StatusNotFound == 404
StatusTooManyRequests == 429
StatusInternalServerError == 500

MethodGet == "GET"
MethodPost == "POST"
MethodPatch == "PATCH"
MethodDelete == "DELETE"

Nil == "nil"

(* ------------------------------ values --------------------------------- *)

\* Provider configuration (modeHost, workspaceId) and the tokens in state.
ModeHosts ==
    { [scheme |-> "https", host |-> "app.mode.com"],
      [scheme |-> "http", host |-> "localhost:8080"] }
WorkspaceIds == {"ws1"}
Tokens == {"tok1"}

Kinds ==
    { "collection", "collection_permission", "group", "group_membership",
      "data_source_permission" }

\* The handlers that obtain their request from HttpRetry(ctx, method, url, body).
CtxKinds == {"group", "group_membership"}
\* The handlers that build the request themselves and call HttpRetry(client, req).
ClientKinds == {"collection", "data_source_permission"}
\* The handler that builds the request itself and calls client.Do directly.
DirectKinds == {"collection_permission"}

Ops == {"Create", "Read", "Update", "Delete"}

\* How the handler of (kind, op) gets its request answered: "ctx" is
\* HttpRetry(ctx, method, url, body) followed by r.client.Do, "client" is
\* HttpRetry(r.client, httpReq), "direct" is r.client.Do alone, "none" is a
\* handler that sends nothing.
Path(k, o) ==
    CASE k \in DirectKinds -> "direct"
      [] k \in ClientKinds -> "client"
      [] k \in CtxKinds /\ o = "Read" -> "direct"
      [] k = "group_membership" /\ o = "Update" -> "none"
      [] OTHER -> "ctx"

\* The method and the body the handler of an operation asks for.
MethodOf(o) ==
    CASE o = "Create" -> MethodPost
      [] o = "Read" -> MethodGet
      [] o = "Update" -> MethodPatch
      [] o = "Delete" -> MethodDelete
BodyOf(o) == IF o \in {"Create", "Update"} THEN "json" ELSE Nil

NilURL == [scheme |-> "", segs |-> << >>]
NilReq == [Method |-> Nil, URL |-> NilURL, Body |-> Nil, StatusCode |-> 0]
NilResp == [StatusCode |-> 0, Body |-> Nil]

Statuses ==
    { StatusOK, StatusForbidden, StatusNotFound, StatusTooManyRequests,
      StatusInternalServerError }

\* Response bodies: a JSON object whose "state" is "soft_deleted" or "active",
\* a JSON object without a "state" field, a JSON object whose "state" is not
\* a string, and a body that is not JSON.
Bodies == {"soft_deleted", "active", "absent", "nonstring", "malformed"}

Responses ==
    { [StatusCode |-> StatusOK, Body |-> b] : b \in Bodies }
        \cup { [StatusCode |-> s, Body |-> "absent"] : s \in Statuses \ {StatusOK} }

TransportError == "transport error"

\* What client.Get / client.Do can hand back: (resp, nil) or (nil, err).
Answers ==
    { [resp |-> r, err |-> Nil] : r \in Responses }
        \cup { [resp |-> NilResp, err |-> TransportError] }

\* Answers to a request whose body the caller does not read.
BodylessAnswers == { a \in Answers : a.resp.Body \in {"absent", Nil} }

(* -------------------------- pure functions ----------------------------- *)

\* fmt.Sprintf("%s/api/%s/...", modeHost, workspaceId, tokens...)
Sprintf(h, tail) == [scheme |-> h.scheme, segs |-> <<h.host>> \o tail]

\* The url of the Create handlers: the collection the resource is posted to.
CreateURL(k, h, w, t1) ==
    CASE k = "collection" -> Sprintf(h, <<"api", w, "spaces">>)
      [] k = "collection_permission" -> Sprintf(h, <<"api", w, "spaces", t1, "permissions">>)
      [] k = "group" -> Sprintf(h, <<"api", w, "groups">>)
      [] k = "group_membership" -> Sprintf(h, <<"api", w, "groups", t1, "memberships">>)
      [] k = "data_source_permission" ->
            Sprintf(h, <<"api", w, "data_sources", t1, "permissions">>)

\* The url of the Read, Update and Delete handlers: the resource itself.
DeleteURL(k, h, w, t1, t2) ==
    CASE k = "collection" -> Sprintf(h, <<"api", w, "spaces", t1>>)
      [] k = "collection_permission" ->
            Sprintf(h, <<"api", w, "spaces", t1, "permissions", t2>>)
      [] k = "group" -> Sprintf(h, <<"api", w, "groups", t1>>)
      [] k = "group_membership" ->
            Sprintf(h, <<"api", w, "groups", t1, "memberships", t2>>)
      [] k = "data_source_permission" ->
            Sprintf(h, <<"api", w, "data_sources", t1, "permissions", t2>>)

\* Variant of MatchString: the pattern without its closing "$" anchor.
MatchString_Unanchored(u) ==
    /\ u.scheme = "https"
    /\ Len(u.segs) >= 5
    /\ u.segs[1] # ""
    /\ u.segs[2] = "api"
    /\ u.segs[3] # ""
    /\ u.segs[4] = "spaces"
    /\ u.segs[5] # ""

\* regexp.MatchString("^https://[^/]+/api/[^/]+/spaces/[^/]+$", resourceURL)
MatchString(u) ==
    /\ u.scheme = "https"
    /\ Len(u.segs) = 5
    /\ u.segs[1] # ""
    /\ u.segs[2] = "api"
    /\ u.segs[3] # ""
    /\ u.segs[4] = "spaces"
    /\ u.segs[5] # ""

\* Index of the first segment that reads "/spaces/" in the URL text, 0 if none.
SpacesIndex(u) ==
    LET hits == { n \in 1..(Len(u.segs) - 1) : u.segs[n] = "spaces" }
    IN  IF hits = {} THEN 0 ELSE CHOOSE n \in hits : \A m \in hits : n <= m

\* strings.Split(resourceURL, "/spaces/")[0] + "/spaces?filter=all"
ListingURL(u) ==
    LET n == SpacesIndex(u)
    IN  IF n = 0
        THEN [scheme |-> u.scheme, segs |-> u.segs \o <<"spaces?filter=all">>]
        ELSE [scheme |-> u.scheme,
              segs |-> SubSeq(u.segs, 1, n - 1) \o <<"spaces?filter=all">>]

\* Variant of Decode: a "state" that is not a string is read as no state.
Decode_Lenient(body) ==
    CASE body = "malformed" -> [err |-> "decode error", State |-> ""]
      [] body \in {"absent", "nonstring"} -> [err |-> Nil, State |-> ""]
      [] OTHER -> [err |-> Nil, State |-> body]

\* json.NewDecoder(resp.Body).Decode(&responseData), responseData.State a string
Decode(body) ==
    CASE body \in {"malformed", "nonstring"} -> [err |-> "decode error", State |-> ""]
      [] body = "absent" -> [err |-> Nil, State |-> ""]
      [] OTHER -> [err |-> Nil, State |-> body]

\* The messages of the errors CheckDeletion returns.
ErrTimedOut == "deletion verification timed out after 1 minute"
ErrGet == "error making GET request: %v"
ErrListing == "Unable to read collections during deletion verification, got error: %s"
ErrForbidden == "unexpected status: %d, not retrying"
ErrDecode == "error decoding response: %v"
ErrUnexpected == "unexpected status or state: %d, not retrying"

(* ------------------------ provider configuration ---------------------- *)

\* A types.String that is null: the attribute is absent from the provider block.
Null == "null"

\* The four settings; data and environ are indexed by them.
ConfigFields == {"ModeHost", "ApiToken", "ApiSecret", "WorkspaceId"}

\* What the provider block may hold for each setting: nothing, "", a value.
BlockValues ==
    [ ModeHost    |-> {Null, "", "https://block.mode.com"},
      ApiToken    |-> {Null, "", "block-token"},
      ApiSecret   |-> {Null, "", "block-secret"},
      WorkspaceId |-> {Null, "", "block-ws"} ]

\* What os.Getenv returns for MODE_ANALYTICS_HOST, _API_TOKEN, _API_SECRET
\* and _WORKSPACE_ID: "" when the variable is unset or empty, else its value.
EnvValues ==
    [ ModeHost    |-> {"", "https://env.mode.com"},
      ApiToken    |-> {"", "env-token"},
      ApiSecret   |-> {"", "env-secret"},
      WorkspaceId |-> {"", "env-ws"} ]

NoValues == [f \in ConfigFields |-> ""]

\* Variant of Resolve: the environment variable wins when it is set.
Resolve_EnvFirst(block, env) ==
    IF env # "" THEN env ELSE IF block # Null THEN block ELSE env

\* modeHost := os.Getenv(...); if !data.ModeHost.IsNull() { modeHost = data.ModeHost.ValueString() }
Resolve(block, env) == IF block # Null THEN block ELSE env

\* if modeHost == "" || apiToken == "" || apiSecret == "" || workspaceId == ""
Missing(c) == \E f \in ConfigFields : c[f] = ""

ErrMissingConfiguration == "Missing Configuration"
\* The error of a provider block that req.Config.Get cannot read into data.
ErrConfigGet == "Value Conversion Error"

\* The struct Configure stores in resp.DataSourceData and resp.ResourceData;
\* Client is the http.Client, of which only the customTransport has fields.
ProviderData(c) ==
    [ Client |-> [Transport |-> [apiToken |-> c.ApiToken, apiSecret |-> c.ApiSecret]],
      ModeHost |-> c.ModeHost,
      WorkspaceId |-> c.WorkspaceId ]

\* The headers of a request as the handlers and helpers build it: none.
NoHeader == [Authorization |-> << >>, ContentType |-> "", Accept |-> ""]

\* req.SetBasicAuth(username, password): "Basic " and the base64 text of
\* username:password, kept as its three parts.
BasicAuth(username, password) == <<"Basic", username, password>>

\* Variant of RoundTrip: the credentials are not added.
RoundTrip_NoCredentials(t, req) ==
    [req EXCEPT !.Header = [@ EXCEPT !.ContentType = "application/json",
                                     !.Accept = "application/hal+json"]]

\* customTransport.RoundTrip, up to the call of the underlying transport.
RoundTrip(t, req) ==
    [req EXCEPT !.Header = [@ EXCEPT !.Authorization = BasicAuth(t.apiToken, t.apiSecret),
                                     !.ContentType = "application/json",
                                     !.Accept = "application/hal+json"]]

\* The places that send a request through the client Configure built, and
\* the methods they send.
CallSites ==
    { "resource client.Do", "resource HttpRetry(client, httpReq)",
      "data source client.Do", "data source HttpRetry(client, httpReq)",
      "CheckDeletion client.Get", "CheckDeletion client.Do" }
DataSourceSites == {"data source client.Do", "data source HttpRetry(client, httpReq)"}
SiteMethods(site) ==
    IF site \in {"resource client.Do", "resource HttpRetry(client, httpReq)"}
    THEN {MethodGet, MethodPost, MethodPatch, MethodDelete}
    ELSE {MethodGet}

(* ------------------------- the collection model ----------------------- *)

\* A value Terraform has not planned: a computed attribute before Create.
Unknown == "unknown"

\* A CollectionModel / a decoded responseData with nothing in it.
NoModel ==
    [ Id |-> "", CollectionToken |-> "", State |-> "", Name |-> "",
      CollectionType |-> "", Description |-> "", Restricted |-> FALSE,
      FreeDefault |-> FALSE, Viewable |-> FALSE, DefaultAccessLevel |-> "" ]

\* The plans of a new collection: id, collection_token and state are
\* computed, the others come from the configuration or the schema defaults.
Plans ==
    { [ Id |-> Unknown, CollectionToken |-> Unknown, State |-> Unknown,
        Name |-> n, CollectionType |-> "custom", Description |-> d,
        Restricted |-> r, FreeDefault |-> FALSE, Viewable |-> TRUE,
        DefaultAccessLevel |-> a ] :
      n \in {"sales", "finance"}, d \in {"", "reports"}, r \in BOOLEAN,
      a \in {"restricted", "view"} }

\* The JSON objects the API may answer with, as responseData decodes them
\* (a missing key decodes to "" or false).
ApiObjects ==
    { [ Id |-> "id1", CollectionToken |-> "tok1", State |-> st,
        Name |-> n, CollectionType |-> "custom", Description |-> d,
        Restricted |-> r, FreeDefault |-> FALSE, Viewable |-> TRUE,
        DefaultAccessLevel |-> a ] :
      st \in {"active", "soft_deleted"}, n \in {"sales", "finance"},
      d \in {"", "reports"}, r \in BOOLEAN, a \in {"none", "view"} }

\* CollectionResource.Create after a decoded 200: the plan with the
\* attributes the handler overwrites from the response.
CreateState(p, responseData) ==
    [ p EXCEPT !.CollectionToken = responseData.CollectionToken,
               !.State = responseData.State,
               !.Id = responseData.Id,
               !.Restricted = responseData.Restricted,
               !.FreeDefault = responseData.FreeDefault,
               !.Viewable = responseData.Viewable,
               !.DefaultAccessLevel = responseData.DefaultAccessLevel ]

\* CollectionResource.Read after a decoded 200 of a collection that is not
\* soft deleted: the prior state with the attributes the handler overwrites.
ReadState(st, responseData) ==
    [ st EXCEPT !.State = responseData.State,
                !.Name = responseData.Name,
                !.CollectionType = responseData.CollectionType,
                !.Description = responseData.Description,
                !.Restricted = responseData.Restricted,
                !.FreeDefault = responseData.FreeDefault,
                !.Viewable = responseData.Viewable,
                !.DefaultAccessLevel = responseData.DefaultAccessLevel ]

\* How the POST of Create and the GET of Read may end.
CreateAnswers == {"200", "undecodable 200", "refused"}
ReadAnswers ==
    {"200", "undecodable 200", "404", "403, listing 200", "403, listing refused",
     "other status", "error"}

(* ------------------------------- state --------------------------------- *)

VARIABLES
    kind,         \* the resource whose handler runs
    op,           \* the operation: Create, Read, Update or Delete
    url,          \* the handler's url
    pc,           \* the handler's position
    httpReq,      \* the request HttpRetry builds / the handler holds
    httpResp,     \* the response the handler holds
    err,          \* the handler's / HttpRetry's err
    sent,         \* the request client.Do last put on the wire for the handler
    diags,        \* resp.Diagnostics: the summaries of the errors added
    inState,      \* the resource is in Terraform state
    stateSet,     \* resp.State.Set was called by this operation
    readListing,  \* Read: the second GET of the handler and its answer
    i,            \* HttpRetry: loop counter
    tried,        \* HttpRetry: the outcome of every attempt so far
    slept,        \* HttpRetry: completed time.Sleep calls
    cdPc,         \* CheckDeletion: position
    resourceURL,  \* CheckDeletion: argument
    now,          \* CheckDeletion: ticker periods since the call began
    timeout,      \* CheckDeletion: the timeout channel holds a value
    tickerC,      \* CheckDeletion: ticker.C holds a value (buffer of one)
    tickDue,      \* CheckDeletion: the ticker has not yet fired for `now`
    polls,        \* CheckDeletion: the GETs on resourceURL and their answers
    listings,     \* CheckDeletion: the GETs on the collection listing
    deletionErr,  \* CheckDeletion: returned error
    opened,       \* response bodies handed to the handler or to CheckDeletion
    closed,       \* Body.Close() calls that have run
    deferred,     \* the handler's pending `defer httpResp.Body.Close()` calls
    cancelled,    \* where the operation was when its context was cancelled
    data,         \* provider Configure: the provider block (ScaffoldingProviderModel)
    environ,      \* provider Configure: the MODE_ANALYTICS_* environment variables
    cfgPc,        \* provider Configure: position
    cfgDiags,     \* provider Configure: resp.Diagnostics
    ResourceData, \* provider Configure: resp.ResourceData, << >> while nil
    DataSourceData, \* provider Configure: resp.DataSourceData, << >> while nil
    wire,         \* the requests the underlying transport was handed
    plan,         \* CollectionResource: the planned CollectionModel
    api,          \* CollectionResource: the JSON object the API answers with
    state,        \* CollectionResource: the CollectionModel in state, << >> if none
    created,      \* CollectionResource: the CollectionModel Create wrote
    mPc           \* CollectionResource: which handler runs next

gVars == <<data, environ, cfgPc, cfgDiags, ResourceData, DataSourceData, wire>>
mVars == <<plan, api, state, created, mPc>>
hVars == <<gVars, mVars, kind, op, url, pc, httpReq, httpResp, err, sent, diags,
           inState, stateSet, readListing>>
rVars == <<i, tried, slept>>
cVars == <<cdPc, resourceURL, now, timeout, tickerC, tickDue, polls, listings,
           deletionErr>>
bVars == <<opened, closed, deferred>>
vars == <<hVars, rVars, cVars, bVars, cancelled>>

\* No second GET was issued.
NoListing == [URL |-> NilURL, ans |-> [resp |-> NilResp, err |-> Nil]]

\* Provider Configure has not been called.
Unconfigured ==
    /\ data = NoValues
    /\ environ = NoValues
    /\ cfgPc = "idle"
    /\ cfgDiags = << >>
    /\ ResourceData = << >>
    /\ DataSourceData = << >>
    /\ wire = << >>

\* No collection is being created or read back.
NoCollection ==
    /\ plan = NoModel
    /\ api = NoModel
    /\ state = << >>
    /\ created = << >>
    /\ mPc = "idle"

\* The locals of a handler, of HttpRetry and of CheckDeletion before any step.
Locals ==
    /\ httpReq = NilReq
    /\ httpResp = NilResp
    /\ err = Nil
    /\ sent = NilReq
    /\ diags = << >>
    /\ stateSet = FALSE
    /\ readListing = NoListing
    /\ i = 0
    /\ tried = << >>
    /\ slept = 0
    /\ cdPc = "idle"
    /\ resourceURL = NilURL
    /\ now = 0
    /\ timeout = FALSE
    /\ tickerC = FALSE
    /\ tickDue = FALSE
    /\ polls = << >>
    /\ listings = << >>
    /\ deletionErr = Nil
    /\ opened = 0
    /\ closed = 0
    /\ deferred = 0
    /\ cancelled = "no"

\* No handler of a resource is called.
NoHandler ==
    /\ kind = "group"
    /\ op = "Read"
    /\ url = NilURL
    /\ pc = "idle"
    /\ inState = FALSE
    /\ Locals

\* The handler is called: Create finds no resource in state, the others do.
Init ==
    /\ kind \in Kinds
    /\ op \in Ops
    /\ \E h \in ModeHosts, w \in WorkspaceIds, t1 \in Tokens, t2 \in Tokens :
           url = IF op = "Create"
                 THEN CreateURL(kind, h, w, t1)
                 ELSE DeleteURL(kind, h, w, t1, t2)
    /\ pc = op
    /\ inState = (op # "Create")
    /\ Locals
    /\ Unconfigured
    /\ NoCollection

(* ----------------------------- cancellation ---------------------------- *)

ErrCanceled == "context canceled"

\* What a request bound to the handler's ctx is answered once ctx is
\* cancelled: client.Do returns (nil, context canceled).
AnswersTo(answers, c) ==
    IF c = "no" THEN answers ELSE { [resp |-> NilResp, err |-> ErrCanceled] }

\* 1 for an answer that carries a response (and so a body), 0 for (nil, err).
Opens(e) == IF e = Nil THEN 1 ELSE 0

(* ------------------------------ HttpRetry ------------------------------ *)

\* http.NewRequestWithContext(ctx, http.MethodGet, url, nil) inside HttpRetry:
\* the method and body arguments of HttpRetry are not used.  StatusCode is
\* the status HttpRetry reads off the value the attempt produced.
HttpRetry_NewRequest(method, u, body, status) ==
    [Method |-> MethodGet, URL |-> u, Body |-> Nil, StatusCode |-> status]

\* Variant of LoopCond: the loop test admits one pass too many.
LoopCond_Inclusive(n) == n <= attempts

\* for i := 0; i < attempts; i++
LoopCond(n) == n < attempts

\* Variant of BreakCond: the loop is left only on a 200.
BreakCond_OnlyOK(status) == status = StatusOK

\* if httpReq.StatusCode != http.StatusTooManyRequests { break }
BreakCond(status) == status # StatusTooManyRequests

\* Variant of HttpRetry_Return: a result that still reads 429 is replaced
\* by an error.
HttpRetry_Return_ErrorWhenExhausted(req, e) ==
    IF req.StatusCode = StatusTooManyRequests
    THEN [req |-> NilReq, err |-> "retries exhausted"]
    ELSE [req |-> req, err |-> e]

\* return httpReq, err
HttpRetry_Return(req, e) == [req |-> req, err |-> e]

\* Variant of HttpRetry_Wait: no wait after the last attempt of the budget.
HttpRetry_Wait_NotAfterLast(n) == IF i + 1 < attempts THEN n + 1 ELSE n

\* time.Sleep(sleep) has run to its end: n waits became n + 1.
HttpRetry_Wait(n) == n + 1

\* What one attempt of HttpRetry(ctx, ...) can produce: a value carrying a
\* status, or (nil, err).
AttemptOutcomes ==
    { [status |-> s, err |-> Nil] : s \in Statuses }
        \cup { [status |-> 0, err |-> TransportError] }

\* One pass of the loop body up to the break, and the return that follows a
\* break: on (nil, err) the read of httpReq.StatusCode dereferences nil and
\* the goroutine panics.
HttpRetry_Attempt ==
    /\ pc = "HttpRetry"
    /\ LoopCond(i)
    /\ \E o \in AttemptOutcomes :
         /\ tried' = Append(tried, o)
         /\ IF o.err # Nil
            THEN /\ httpReq' = NilReq
                 /\ err' = o.err
                 /\ pc' = "panic"
            ELSE LET req == HttpRetry_NewRequest(MethodOf(op), url, BodyOf(op), o.status)
                 IN  IF BreakCond(o.status)
                     THEN /\ httpReq' = HttpRetry_Return(req, Nil).req
                          /\ err' = HttpRetry_Return(req, Nil).err
                          /\ pc' = "HttpRetry_returned"
                     ELSE /\ httpReq' = req
                          /\ err' = Nil
                          /\ pc' = "HttpRetry_sleep"
    /\ UNCHANGED <<gVars, mVars, kind, op, readListing, url, httpResp, sent, diags, inState, stateSet, i, slept,
                   cVars, bVars, cancelled>>

\* time.Sleep(sleep); i++; the loop test; return httpReq, err
HttpRetry_Sleep ==
    /\ pc = "HttpRetry_sleep"
    /\ slept' = HttpRetry_Wait(slept)
    /\ i' = i + 1
    /\ IF LoopCond(i + 1)
       THEN /\ pc' = "HttpRetry"
            /\ UNCHANGED <<httpReq, err>>
       ELSE /\ pc' = "HttpRetry_returned"
            /\ httpReq' = HttpRetry_Return(httpReq, err).req
            /\ err' = HttpRetry_Return(httpReq, err).err
    /\ UNCHANGED <<gVars, mVars, kind, op, readListing, url, httpResp, sent, diags, inState, stateSet, tried,
                   cVars, bVars, cancelled>>

\* The context is cancelled while HttpRetry is in time.Sleep(sleep): nothing
\* in the loop looks at ctx, the sleep runs to its end.
Cancel_InSleep ==
    /\ pc = "HttpRetry_sleep"
    /\ cancelled = "no"
    /\ cancelled' = "HttpRetry"
    /\ UNCHANGED <<hVars, rVars, cVars, bVars>>

(* ------------------ HttpRetry(client, req), legacy form ---------------- *)

\* The collection and data-source-permission handlers call
\* HttpRetry(r.client, httpReq) and read a response off the result.  The body
\* of that form is not in helpers.go; it is modelled from the design text:
\* issue the request, on 429 wait and retry, at most `attempts` times, a
\* transport error returns at once.  The response it returns is the one
\* whose body the handler owns.
HttpRetryClient_Attempt ==
    /\ pc = "HttpRetryClient"
    /\ LoopCond(i)
    /\ \E a \in (IF op = "Delete" THEN BodylessAnswers ELSE Answers) :
         /\ tried' = Append(tried, [status |-> a.resp.StatusCode, err |-> a.err])
         /\ sent' = httpReq
         /\ httpResp' = a.resp
         /\ err' = a.err
         /\ IF a.err # Nil \/ BreakCond(a.resp.StatusCode)
            THEN /\ pc' = "HttpRetryClient_returned"
                 /\ opened' = opened + Opens(a.err)
            ELSE /\ pc' = "HttpRetryClient_sleep"
                 /\ UNCHANGED opened
    /\ UNCHANGED <<gVars, mVars, kind, op, readListing, url, httpReq, diags, inState, stateSet, i, slept, cVars,
                   closed, deferred, cancelled>>

HttpRetryClient_Sleep ==
    /\ pc = "HttpRetryClient_sleep"
    /\ slept' = slept + 1
    /\ i' = i + 1
    /\ IF LoopCond(i + 1)
       THEN /\ pc' = "HttpRetryClient"
            /\ UNCHANGED opened
       ELSE /\ pc' = "HttpRetryClient_returned"
            /\ opened' = opened + 1
    /\ UNCHANGED <<gVars, mVars, kind, op, readListing, url, httpReq, httpResp, err, sent, diags, inState,
                   stateSet, tried, cVars, closed, deferred, cancelled>>

(* ------------------------- what handlers share ------------------------- *)

\* http.NewRequestWithContext(ctx, method, url, body) and
\* http.NewRequest(method, url, body) in a handler
NewRequestWithContext(method, u, body) ==
    [Method |-> method, URL |-> u, Body |-> body, StatusCode |-> 0]

\* HttpRetry's frame is gone once the handler has taken its result.
LeaveHttpRetry ==
    /\ i' = 0
    /\ tried' = << >>
    /\ slept' = 0

\* The handler returns: its deferred Body.Close() calls run, `more` of them
\* registered by the step that returns.
Return(more) ==
    /\ pc' = "done"
    /\ closed' = closed + deferred + more
    /\ deferred' = 0

(* --------------------------- Delete handlers --------------------------- *)

\* The summary of the diagnostic a handler adds when CheckDeletion fails.
DeletionErrorSummary(k) ==
    CASE k = "collection" -> "Collection Deletion Error"
      [] k = "collection_permission" -> "Collection Permission Deletion Error"
      [] k = "group" -> "Group Deletion Error"
      [] k = "group_membership" -> "Group Membership Deletion Error"
      [] k = "data_source_permission" -> "Data Source Permission Deletion Error"

\* Variant of DeleteRefused: only a transport error is refused.
DeleteRefused_OnlyErr(e, resp) == e # Nil

\* if err != nil || httpResp.StatusCode != http.StatusOK { AddError; return }
DeleteRefused(e, resp) == e # Nil \/ resp.StatusCode # StatusOK

\* The url the handler hands to CheckDeletion.
CheckDeletionArg(u) == u

\* CheckDeletion is entered: timeout and ticker are created.
EnterCheckDeletion ==
    /\ cdPc' = "select"
    /\ resourceURL' = CheckDeletionArg(url)
    /\ now' = 0
    /\ timeout' = FALSE
    /\ tickerC' = FALSE
    /\ tickDue' = FALSE
    /\ polls' = << >>
    /\ listings' = << >>
    /\ deletionErr' = Nil

\* The handler up to its first call that leaves the process.
Delete_Begin ==
    /\ pc = "Delete"
    /\ i' = 0
    /\ CASE Path(kind, op) = "ctx" ->
              /\ pc' = "HttpRetry"
              /\ UNCHANGED <<httpReq, sent>>
         [] Path(kind, op) = "client" ->
              /\ httpReq' = NewRequestWithContext(MethodDelete, url, Nil)
              /\ pc' = "HttpRetryClient"
              /\ UNCHANGED sent
         [] Path(kind, op) = "direct" ->
              /\ httpReq' = NewRequestWithContext(MethodDelete, url, Nil)
              /\ sent' = httpReq'
              /\ pc' = "Do"
    /\ UNCHANGED <<gVars, mVars, kind, op, readListing, url, httpResp, err, diags, inState, stateSet, tried,
                   slept, cVars, bVars, cancelled>>

\* The status test on the answer to the DELETE: a refusal adds a diagnostic
\* and returns before any Close is deferred; otherwise the Close is deferred
\* and CheckDeletion is called.
Delete_Answered(e, resp) ==
    IF DeleteRefused(e, resp)
    THEN /\ diags' = Append(diags, "Client Error")
         /\ Return(0)
         /\ UNCHANGED cVars
    ELSE /\ pc' = "CheckDeletion"
         /\ deferred' = deferred + 1
         /\ EnterCheckDeletion
         /\ UNCHANGED <<diags, closed>>

\* group, group membership: HttpRetry has returned (httpReq, err); on a nil
\* err the handler sends httpReq with r.client.Do.
Delete_AfterHttpRetry ==
    /\ pc = "HttpRetry_returned"
    /\ op = "Delete"
    /\ IF err # Nil
       THEN /\ diags' = Append(diags, "Client Error")
            /\ Return(0)
            /\ UNCHANGED sent
       ELSE /\ sent' = httpReq
            /\ pc' = "Do"
            /\ UNCHANGED <<diags, closed, deferred>>
    /\ LeaveHttpRetry
    /\ UNCHANGED <<gVars, mVars, kind, op, readListing, url, httpReq, httpResp, err, inState, stateSet, cVars,
                   opened, cancelled>>

\* r.client.Do(httpReq) returns; the status test; the call of CheckDeletion.
Delete_Do ==
    /\ pc = "Do"
    /\ op = "Delete"
    /\ \E a \in AnswersTo(BodylessAnswers, cancelled) :
         /\ httpResp' = a.resp
         /\ err' = a.err
         /\ opened' = opened + Opens(a.err)
         /\ Delete_Answered(a.err, a.resp)
    /\ UNCHANGED <<gVars, mVars, kind, op, readListing, url, httpReq, sent, inState, stateSet, rVars, cancelled>>

\* collection, data source permission: HttpRetry(r.client, httpReq) has
\* returned (httpResp, err); the status test; the call of CheckDeletion.
Delete_AfterHttpRetryClient ==
    /\ pc = "HttpRetryClient_returned"
    /\ op = "Delete"
    /\ Delete_Answered(err, httpResp)
    /\ LeaveHttpRetry
    /\ UNCHANGED <<gVars, mVars, kind, op, readListing, url, httpReq, httpResp, err, sent, inState, stateSet,
                   opened, cancelled>>

\* if deletionErr != nil { AddError; return }; resp.State.RemoveResource(ctx)
RemoveAllowed(e) == e = Nil

Delete_AfterCheckDeletion ==
    /\ pc = "CheckDeletion"
    /\ cdPc = "returned"
    /\ IF RemoveAllowed(deletionErr)
       THEN /\ inState' = FALSE
            /\ UNCHANGED diags
       ELSE /\ diags' = Append(diags, DeletionErrorSummary(kind))
            /\ UNCHANGED inState
    /\ Return(0)
    /\ UNCHANGED <<gVars, mVars, kind, op, readListing, url, httpReq, httpResp, err, sent, stateSet, rVars, cVars,
                   opened, cancelled>>

(* ---------------------- Create and Update handlers --------------------- *)

\* Variant of CUOutcome: the error of Decode is not tested.
CUOutcome_IgnoreDecodeError(e, resp) ==
    IF e # Nil \/ resp.StatusCode # StatusOK THEN "refused" ELSE "set"

\* What a Create or Update handler does with the answer to its request:
\* err or a status other than 200 is refused before the Close is deferred,
\* a body that does not decode is an error, otherwise the state is set.
CUOutcome(e, resp) ==
    IF e # Nil \/ resp.StatusCode # StatusOK
    THEN "refused"
    ELSE IF Decode(resp.Body).err # Nil
    THEN "decode_error"
    ELSE "set"

CU_Answered(e, resp) ==
    LET o == CUOutcome(e, resp)
    IN  /\ diags' = IF o = "set" THEN diags ELSE Append(diags, "Client Error")
        /\ stateSet' = (o = "set")
        /\ inState' = (inState \/ o = "set")
        /\ Return(IF o = "refused" THEN 0 ELSE 1)

\* The handler up to its first call that leaves the process.
\* GroupMembershipResource.Update reads the plan and returns.
CU_Begin ==
    /\ pc \in {"Create", "Update"}
    /\ i' = 0
    /\ CASE Path(kind, op) = "ctx" ->
              /\ pc' = "HttpRetry"
              /\ UNCHANGED <<httpReq, sent, closed, deferred>>
         [] Path(kind, op) = "client" ->
              /\ httpReq' = NewRequestWithContext(MethodOf(op), url, BodyOf(op))
              /\ pc' = "HttpRetryClient"
              /\ UNCHANGED <<sent, closed, deferred>>
         [] Path(kind, op) = "direct" ->
              /\ httpReq' = NewRequestWithContext(MethodOf(op), url, BodyOf(op))
              /\ sent' = httpReq'
              /\ pc' = "Do"
              /\ UNCHANGED <<closed, deferred>>
         [] Path(kind, op) = "none" ->
              /\ Return(0)
              /\ UNCHANGED <<httpReq, sent>>
    /\ UNCHANGED <<gVars, mVars, kind, op, readListing, url, httpResp, err, diags, inState, stateSet, tried,
                   slept, cVars, opened, cancelled>>

\* group, group membership: HttpRetry has returned (httpReq, err); on a nil
\* err the handler sends httpReq with r.client.Do.
CU_AfterHttpRetry ==
    /\ pc = "HttpRetry_returned"
    /\ op \in {"Create", "Update"}
    /\ IF err # Nil
       THEN /\ diags' = Append(diags, "Client Error")
            /\ Return(0)
            /\ UNCHANGED sent
       ELSE /\ sent' = httpReq
            /\ pc' = "Do"
            /\ UNCHANGED <<diags, closed, deferred>>
    /\ LeaveHttpRetry
    /\ UNCHANGED <<gVars, mVars, kind, op, readListing, url, httpReq, httpResp, err, inState, stateSet, cVars,
                   opened, cancelled>>

\* r.client.Do(httpReq) returns; the status test, the decode, State.Set.
CU_Do ==
    /\ pc = "Do"
    /\ op \in {"Create", "Update"}
    /\ \E a \in AnswersTo(Answers, cancelled) :
         /\ httpResp' = a.resp
         /\ err' = a.err
         /\ opened' = opened + Opens(a.err)
         /\ CU_Answered(a.err, a.resp)
    /\ UNCHANGED <<gVars, mVars, kind, op, readListing, url, httpReq, sent, rVars, cVars, cancelled>>

\* collection, data source permission: HttpRetry(r.client, httpReq) has
\* returned (httpResp, err); the status test, the decode, State.Set.
CU_AfterHttpRetryClient ==
    /\ pc = "HttpRetryClient_returned"
    /\ op \in {"Create", "Update"}
    /\ CU_Answered(err, httpResp)
    /\ LeaveHttpRetry
    /\ UNCHANGED <<gVars, mVars, kind, op, readListing, url, httpReq, httpResp, err, sent, cVars, opened,
                   cancelled>>

(* ---------------------------- Read handlers ---------------------------- *)

\* The kinds whose Read removes a resource the API reports as soft-deleted.
SoftDeleteKinds == {"group", "collection"}

\* Variant of ReadOutcome: a 404 is reported like any other unexpected status.
ReadOutcome_NotFoundIsError(k, e, resp) ==
    IF e # Nil
    THEN "client_error"
    ELSE IF resp.StatusCode = StatusOK
    THEN IF Decode(resp.Body).err # Nil
         THEN "client_error"
         ELSE IF k \in SoftDeleteKinds /\ Decode(resp.Body).State = "soft_deleted"
         THEN "remove"
         ELSE "set"
    ELSE IF k = "collection" /\ resp.StatusCode = StatusForbidden
    THEN "listing"
    ELSE IF k = "data_source_permission" /\ resp.StatusCode = StatusInternalServerError
    THEN "listing"
    ELSE "api_error"

\* The if / else-if chain of a Read handler on the answer to its GET.
ReadOutcome(k, e, resp) ==
    IF e # Nil
    THEN "client_error"
    ELSE IF resp.StatusCode = StatusOK
    THEN IF Decode(resp.Body).err # Nil
         THEN "client_error"
         ELSE IF k \in SoftDeleteKinds /\ Decode(resp.Body).State = "soft_deleted"
         THEN "remove"
         ELSE "set"
    ELSE IF resp.StatusCode = StatusNotFound
    THEN "remove"
    ELSE IF k = "collection" /\ resp.StatusCode = StatusForbidden
    THEN "listing"
    ELSE IF k = "data_source_permission" /\ resp.StatusCode = StatusInternalServerError
    THEN "listing"
    ELSE "api_error"

\* The bodies of the answer to the second GET of a Read handler: a list that
\* holds the permission token, one that does not, and a body that is not JSON.
ListBodies == {"found", "not_found", "malformed"}
ListAnswers ==
    { [resp |-> [StatusCode |-> StatusOK, Body |-> b], err |-> Nil] : b \in ListBodies }
        \cup { a \in BodylessAnswers : a.resp.StatusCode # StatusOK }

\* Variant of ReadListingOutcome: the collection is removed whatever the
\* status of the listing answer.
ReadListingOutcome_AnyStatusRemoves(k, e, resp) ==
    IF e # Nil
    THEN "client_error"
    ELSE IF k = "collection"
    THEN "remove"
    ELSE IF resp.StatusCode # StatusOK
    THEN "api_error"
    ELSE IF resp.Body = "malformed"
    THEN "client_error"
    ELSE IF resp.Body = "found"
    THEN "set"
    ELSE "remove"

\* What the Read handler does with the answer to its second GET: the
\* collection listing (any 200 removes the resource), the list of the data
\* source's permissions (searched for the permission token).
ReadListingOutcome(k, e, resp) ==
    IF e # Nil
    THEN "client_error"
    ELSE IF k = "collection"
    THEN IF resp.StatusCode = StatusOK THEN "remove" ELSE "client_error"
    ELSE IF resp.StatusCode # StatusOK
    THEN "api_error"
    ELSE IF resp.Body = "malformed"
    THEN "client_error"
    ELSE IF resp.Body = "found"
    THEN "set"
    ELSE "remove"

\* The url of the second GET: fmt.Sprintf("%s/api/%s/spaces?filter=all",
\* r.modeHost, r.workspaceId) in CollectionResource.Read, and
\* fmt.Sprintf("%s/api/%s/data_sources/%s/permissions", ...) in
\* DataSourcePermissionResource.Read; u is the handler's url, built from the
\* same r.modeHost, r.workspaceId and data source token.
ReadListingURL(k, u) ==
    IF k = "collection"
    THEN [scheme |-> u.scheme, segs |-> SubSeq(u.segs, 1, 3) \o <<"spaces?filter=all">>]
    ELSE [scheme |-> u.scheme, segs |-> SubSeq(u.segs, 1, 6)]

\* The effect of an outcome that ends the handler.
Read_Finish(o, more) ==
    /\ diags' = CASE o = "client_error" -> Append(diags, "Client Error")
                  [] o = "api_error" -> Append(diags, "API response error")
                  [] OTHER -> diags
    /\ inState' = (inState /\ o # "remove")
    /\ stateSet' = (o = "set")
    /\ Return(more)

Read_Answered(e, resp) ==
    LET o == ReadOutcome(kind, e, resp)
    IN  IF o = "listing"
        THEN /\ pc' = "Read_Listing"
             /\ deferred' = deferred + 1
             /\ readListing' = [URL |-> ReadListingURL(kind, url),
                                ans |-> [resp |-> NilResp, err |-> "pending"]]
             /\ UNCHANGED <<diags, inState, stateSet, closed>>
        ELSE /\ Read_Finish(o, Opens(e))
             /\ UNCHANGED readListing

\* http.NewRequest("GET", url, nil) and the call that sends it.
Read_Begin ==
    /\ pc = "Read"
    /\ i' = 0
    /\ httpReq' = NewRequestWithContext(MethodGet, url, Nil)
    /\ CASE Path(kind, op) = "client" ->
              /\ pc' = "HttpRetryClient"
              /\ UNCHANGED sent
         [] Path(kind, op) = "direct" ->
              /\ sent' = httpReq'
              /\ pc' = "Do"
    /\ UNCHANGED <<gVars, mVars, kind, op, readListing, url, httpResp, err, diags, inState, stateSet, tried,
                   slept, cVars, bVars, cancelled>>

\* r.client.Do(httpReq) returns and the answer is acted on.
Read_Do ==
    /\ pc = "Do"
    /\ op = "Read"
    /\ \E a \in Answers :
         /\ httpResp' = a.resp
         /\ err' = a.err
         /\ opened' = opened + Opens(a.err)
         /\ Read_Answered(a.err, a.resp)
    /\ UNCHANGED <<gVars, mVars, kind, op, url, httpReq, sent, rVars, cVars, cancelled>>

\* HttpRetry(r.client, httpReq) has returned and the answer is acted on.
Read_AfterHttpRetryClient ==
    /\ pc = "HttpRetryClient_returned"
    /\ op = "Read"
    /\ Read_Answered(err, httpResp)
    /\ LeaveHttpRetry
    /\ UNCHANGED <<gVars, mVars, kind, op, url, httpReq, httpResp, err, sent, cVars, opened,
                   cancelled>>

\* The second GET of CollectionResource.Read (on a 403) and of
\* DataSourcePermissionResource.Read (on a 500) has been answered; its
\* httpResp and err are variables of the inner block.
Read_Listing ==
    /\ pc = "Read_Listing"
    /\ \E a \in ListAnswers :
         /\ opened' = opened + Opens(a.err)
         /\ readListing' = [readListing EXCEPT !.ans = a]
         /\ Read_Finish(ReadListingOutcome(kind, a.err, a.resp), Opens(a.err))
    /\ UNCHANGED <<gVars, mVars, kind, op, url, httpReq, httpResp, err, sent, rVars, cVars,
                   cancelled>>

(* ---------------------------- CheckDeletion ---------------------------- *)

Pending == [resp |-> NilResp, err |-> "pending"]

\* The goroutine is not runnable: a request is in flight, or it is blocked in
\* the select with neither channel ready.
Waiting ==
    \/ cdPc \in {"Get", "Do"}
    \/ cdPc = "select" /\ ~timeout /\ ~tickerC

\* The number of bodies CheckDeletion has deferred a Close for: one for every
\* answer that carried a response.  The deferred calls run when it returns.
CdDeferred(ps, ls) ==
    Cardinality({ k \in 1..Len(ps) : ps[k].ans.err = Nil })
        + Cardinality({ k \in 1..Len(ls) : ls[k].ans.err = Nil })

\* Variant of TimeoutFires: the timeout channel never receives its value.
TimeoutFires_Never(n) == FALSE

\* time.After(1 * time.Minute): the channel receives its value after one minute.
TimeoutFires(n) == n = TimeoutTicks

\* Ten seconds pass.  time.After(1 * time.Minute) was created before the
\* ticker, so at the sixth period the timeout channel is filled first and the
\* ticker fires after it (CheckDeletion_TickFire).
CheckDeletion_Advance ==
    /\ pc = "CheckDeletion"
    /\ Waiting
    /\ ~tickDue
    /\ now < MaxNow
    /\ now' = now + 1
    /\ timeout' = (timeout \/ TimeoutFires(now'))
    /\ tickDue' = TRUE
    /\ UNCHANGED <<hVars, rVars, cdPc, resourceURL, tickerC, polls, listings,
                   deletionErr, bVars, cancelled>>

\* The ticker fires: ticker.C has a buffer of one, a tick that finds it full
\* is dropped.  A goroutine blocked in the select has already been woken by
\* a channel that was filled earlier.
CheckDeletion_TickFire ==
    /\ pc = "CheckDeletion"
    /\ Waiting
    /\ tickDue
    /\ tickDue' = FALSE
    /\ tickerC' = TRUE
    /\ UNCHANGED <<hVars, rVars, cdPc, resourceURL, now, timeout, polls, listings,
                   deletionErr, bVars, cancelled>>

\* The context is cancelled while CheckDeletion is blocked in its select:
\* CheckDeletion has no ctx parameter and the select has no case for it.
Cancel_InSelect ==
    /\ pc = "CheckDeletion"
    /\ cdPc = "select"
    /\ ~timeout /\ ~tickerC
    /\ cancelled = "no"
    /\ cancelled' = "CheckDeletion"
    /\ UNCHANGED <<hVars, rVars, cVars, bVars>>

\* case <-timeout: return fmt.Errorf("deletion verification timed out ...")
CheckDeletion_Timeout ==
    /\ pc = "CheckDeletion"
    /\ cdPc = "select"
    /\ timeout
    /\ deletionErr' = ErrTimedOut
    /\ cdPc' = "returned"
    /\ closed' = closed + CdDeferred(polls, listings)
    /\ UNCHANGED <<hVars, rVars, resourceURL, now, timeout, tickerC, tickDue, polls,
                   listings, opened, deferred, cancelled>>

\* case <-ticker.C: client.Get(resourceURL) is issued.  `late` records that
\* the timeout channel already held its value when the GET was issued.
CheckDeletion_Tick ==
    /\ pc = "CheckDeletion"
    /\ cdPc = "select"
    /\ tickerC
    /\ tickerC' = FALSE
    /\ polls' = Append(polls, [late |-> timeout, ans |-> Pending])
    /\ cdPc' = "Get"
    /\ UNCHANGED <<hVars, rVars, resourceURL, now, timeout, tickDue, listings,
                   deletionErr, bVars, cancelled>>

\* Variant of PollOutcome: a 403 counts as a confirmed deletion.
PollOutcome_ForbiddenIsDeleted(u, a) ==
    IF a.err # Nil
    THEN [next |-> "returned", err |-> ErrGet]
    ELSE IF a.resp.StatusCode \in {StatusNotFound, StatusForbidden}
    THEN [next |-> "returned", err |-> Nil]
    ELSE IF a.resp.StatusCode = StatusOK
    THEN IF Decode(a.resp.Body).err # Nil
         THEN [next |-> "returned", err |-> ErrDecode]
         ELSE IF Decode(a.resp.Body).State = "soft_deleted"
         THEN [next |-> "returned", err |-> Nil]
         ELSE [next |-> "select", err |-> Nil]
    ELSE [next |-> "returned", err |-> ErrUnexpected]

\* Variant of PollOutcome: a 403 for a URL that is no collection is polled
\* again at the next tick.
PollOutcome_ForbiddenPollsAgain(u, a) ==
    IF a.err # Nil
    THEN [next |-> "returned", err |-> ErrGet]
    ELSE IF a.resp.StatusCode = StatusNotFound
    THEN [next |-> "returned", err |-> Nil]
    ELSE IF a.resp.StatusCode = StatusForbidden
    THEN IF MatchString(u)
         THEN [next |-> "Do", err |-> Nil]
         ELSE [next |-> "select", err |-> Nil]
    ELSE IF a.resp.StatusCode = StatusOK
    THEN IF Decode(a.resp.Body).err # Nil
         THEN [next |-> "returned", err |-> ErrDecode]
         ELSE IF Decode(a.resp.Body).State = "soft_deleted"
         THEN [next |-> "returned", err |-> Nil]
         ELSE [next |-> "select", err |-> Nil]
    ELSE [next |-> "returned", err |-> ErrUnexpected]

\* Variant of PollOutcome: a GET that failed is tried again at the next tick.
PollOutcome_RetryOnTransportError(u, a) ==
    IF a.err # Nil
    THEN [next |-> "select", err |-> Nil]
    ELSE IF a.resp.StatusCode = StatusNotFound
    THEN [next |-> "returned", err |-> Nil]
    ELSE IF a.resp.StatusCode = StatusForbidden
    THEN IF MatchString(u)
         THEN [next |-> "Do", err |-> Nil]
         ELSE [next |-> "returned", err |-> ErrForbidden]
    ELSE IF a.resp.StatusCode = StatusOK
    THEN IF Decode(a.resp.Body).err # Nil
         THEN [next |-> "returned", err |-> ErrDecode]
         ELSE IF Decode(a.resp.Body).State = "soft_deleted"
         THEN [next |-> "returned", err |-> Nil]
         ELSE [next |-> "select", err |-> Nil]
    ELSE [next |-> "returned", err |-> ErrUnexpected]

\* Variant of PollOutcome: every 200 counts as a confirmed deletion.
PollOutcome_AnyOKDeleted(u, a) ==
    IF a.err # Nil
    THEN [next |-> "returned", err |-> ErrGet]
    ELSE IF a.resp.StatusCode \in {StatusNotFound, StatusOK}
    THEN [next |-> "returned", err |-> Nil]
    ELSE IF a.resp.StatusCode = StatusForbidden
    THEN IF MatchString(u)
         THEN [next |-> "Do", err |-> Nil]
         ELSE [next |-> "returned", err |-> ErrForbidden]
    ELSE [next |-> "returned", err |-> ErrUnexpected]

\* Variant of PollOutcome: a 429 is polled again like a 200 that is still active.
PollOutcome_RetryOn429(u, a) ==
    IF a.err # Nil
    THEN [next |-> "returned", err |-> ErrGet]
    ELSE IF a.resp.StatusCode = StatusNotFound
    THEN [next |-> "returned", err |-> Nil]
    ELSE IF a.resp.StatusCode = StatusForbidden
    THEN IF MatchString(u)
         THEN [next |-> "Do", err |-> Nil]
         ELSE [next |-> "returned", err |-> ErrForbidden]
    ELSE IF a.resp.StatusCode = StatusOK
    THEN IF Decode(a.resp.Body).err # Nil
         THEN [next |-> "returned", err |-> ErrDecode]
         ELSE IF Decode(a.resp.Body).State = "soft_deleted"
         THEN [next |-> "returned", err |-> Nil]
         ELSE [next |-> "select", err |-> Nil]
    ELSE IF a.resp.StatusCode = StatusTooManyRequests
    THEN [next |-> "select", err |-> Nil]
    ELSE [next |-> "returned", err |-> ErrUnexpected]

\* The if / else-if chain on the answer of client.Get(resourceURL):
\* next is where CheckDeletion goes, err what it returns when it returns.
PollOutcome(u, a) ==
    IF a.err # Nil
    THEN [next |-> "returned", err |-> ErrGet]
    ELSE IF a.resp.StatusCode = StatusNotFound
    THEN [next |-> "returned", err |-> Nil]
    ELSE IF a.resp.StatusCode = StatusForbidden
    THEN IF MatchString(u)
         THEN [next |-> "Do", err |-> Nil]
         ELSE [next |-> "returned", err |-> ErrForbidden]
    ELSE IF a.resp.StatusCode = StatusOK
    THEN IF Decode(a.resp.Body).err # Nil
         THEN [next |-> "returned", err |-> ErrDecode]
         ELSE IF Decode(a.resp.Body).State = "soft_deleted"
         THEN [next |-> "returned", err |-> Nil]
         ELSE [next |-> "select", err |-> Nil]
    ELSE [next |-> "returned", err |-> ErrUnexpected]

\* client.Get(resourceURL) returns and the answer is acted on; on a 403 for
\* a matching URL the GET on the collection listing is issued.
CheckDeletion_Get ==
    /\ pc = "CheckDeletion"
    /\ cdPc = "Get"
    /\ \E a \in Answers :
         LET o == PollOutcome(resourceURL, a)
         IN  /\ polls' = [polls EXCEPT ![Len(polls)].ans = a]
             /\ cdPc' = o.next
             /\ deletionErr' = o.err
             /\ listings' = IF o.next = "Do"
                            THEN Append(listings,
                                        [URL |-> ListingURL(resourceURL),
                                         ans |-> Pending])
                            ELSE listings
             /\ opened' = opened + Opens(a.err)
             /\ closed' = IF o.next = "returned"
                          THEN closed + CdDeferred(polls', listings')
                          ELSE closed
    /\ UNCHANGED <<hVars, rVars, resourceURL, now, timeout, tickerC, tickDue,
                   deferred, cancelled>>

\* Variant of ListingOutcome: the status of the listing answer is not tested.
ListingOutcome_IgnoreStatus(a) ==
    IF a.err # Nil THEN ErrListing ELSE Nil

\* The answer of client.Do on the listing request: nil only on a 200.
ListingOutcome(a) ==
    IF a.err # Nil
    THEN ErrListing
    ELSE IF a.resp.StatusCode # StatusOK
    THEN ErrListing
    ELSE Nil

CheckDeletion_Listing ==
    /\ pc = "CheckDeletion"
    /\ cdPc = "Do"
    /\ \E a \in BodylessAnswers :
         /\ listings' = [listings EXCEPT ![Len(listings)].ans = a]
         /\ deletionErr' = ListingOutcome(a)
         /\ cdPc' = "returned"
         /\ opened' = opened + Opens(a.err)
         /\ closed' = closed + CdDeferred(polls, listings')
    /\ UNCHANGED <<hVars, rVars, resourceURL, now, timeout, tickerC, tickDue, polls,
                   deferred, cancelled>>

(* --------------------------- provider Configure ------------------------ *)

\* ScaffoldingProvider.Configure: read the provider block (which may fail),
\* read the environment, let the provider block override it, refuse an
\* empty setting, else build the client and hand it with host and
\* workspace to resources and data sources.
Configure ==
    /\ cfgPc = "Configure"
    /\ \E getOk \in BOOLEAN :
         LET c == [f \in ConfigFields |-> Resolve(data[f], environ[f])]
         IN  CASE ~getOk ->
                    /\ cfgDiags' = Append(cfgDiags, ErrConfigGet)
                    /\ cfgPc' = "unread"
                    /\ UNCHANGED <<ResourceData, DataSourceData>>
               [] getOk /\ Missing(c) ->
                    /\ cfgDiags' = Append(cfgDiags, ErrMissingConfiguration)
                    /\ cfgPc' = "failed"
                    /\ UNCHANGED <<ResourceData, DataSourceData>>
               [] OTHER ->
                    /\ DataSourceData' = <<ProviderData(c)>>
                    /\ ResourceData' = <<ProviderData(c)>>
                    /\ cfgPc' = "configured"
                    /\ UNCHANGED cfgDiags
    /\ UNCHANGED <<data, environ, wire, mVars, kind, op, url, pc, httpReq, httpResp, err,
                   sent, diags, inState, stateSet, readListing, rVars, cVars, bVars,
                   cancelled>>

\* A resource or data source, configured with the provider's data, sends a
\* request through its client: http.Client hands it to customTransport.RoundTrip,
\* which hands it to the underlying transport.
Client_Do ==
    /\ cfgPc = "configured"
    /\ Len(wire) < MaxWire
    /\ \E site \in CallSites :
         \E method \in SiteMethods(site) :
           LET config == IF site \in DataSourceSites
                         THEN DataSourceData[1] ELSE ResourceData[1]
               req == [site |-> site, Method |-> method, Header |-> NoHeader]
           IN  wire' = Append(wire, RoundTrip(config.Client.Transport, req))
    /\ UNCHANGED <<data, environ, cfgPc, cfgDiags, ResourceData, DataSourceData, mVars,
                   kind, op, url, pc, httpReq, httpResp, err, sent, diags, inState,
                   stateSet, readListing, rVars, cVars, bVars, cancelled>>

(* ------------------- collection: Create, then Read --------------------- *)

\* CollectionResource.Create, by the answer to its POST: only a 200 whose
\* body decodes writes the state.
Collection_Create ==
    /\ mPc = "Create"
    /\ \E answer \in CreateAnswers :
         IF answer = "200"
         THEN /\ state' = <<CreateState(plan, api)>>
              /\ created' = <<CreateState(plan, api)>>
              /\ mPc' = "Read"
         ELSE /\ mPc' = "create failed"
              /\ UNCHANGED <<state, created>>
    /\ UNCHANGED <<plan, api, gVars, kind, op, url, pc, httpReq, httpResp, err, sent,
                   diags, inState, stateSet, readListing, rVars, cVars, bVars, cancelled>>

\* CollectionResource.Read of the collection Create wrote, by the answer to
\* its GET: a decoded 200 rewrites the state or, for a soft-deleted
\* collection, removes it; a 404, or a 403 whose listing answers 200,
\* removes it; anything else is an error and leaves it.
Collection_Read ==
    /\ mPc = "Read"
    /\ \E answer \in ReadAnswers :
         CASE answer = "200" ->
                /\ state' = IF api.State = "soft_deleted"
                            THEN << >>
                            ELSE <<ReadState(state[1], api)>>
                /\ mPc' = "read"
           [] answer \in {"404", "403, listing 200"} ->
                /\ state' = << >>
                /\ mPc' = "removed"
           [] OTHER ->
                /\ mPc' = "read failed"
                /\ UNCHANGED state
    /\ UNCHANGED <<plan, api, created, gVars, kind, op, url, pc, httpReq, httpResp, err,
                   sent, diags, inState, stateSet, readListing, rVars, cVars, bVars,
                   cancelled>>

(* --------------------------- specification ----------------------------- *)

Next ==
    \/ CU_Begin
    \/ CU_AfterHttpRetry
    \/ CU_Do
    \/ CU_AfterHttpRetryClient
    \/ Read_Begin
    \/ Read_Do
    \/ Read_AfterHttpRetryClient
    \/ Read_Listing
    \/ Delete_Begin
    \/ HttpRetry_Attempt
    \/ HttpRetry_Sleep
    \/ HttpRetryClient_Attempt
    \/ HttpRetryClient_Sleep
    \/ Delete_AfterHttpRetry
    \/ Delete_Do
    \/ Delete_AfterHttpRetryClient
    \/ CheckDeletion_Advance
    \/ CheckDeletion_TickFire
    \/ CheckDeletion_Timeout
    \/ CheckDeletion_Tick
    \/ CheckDeletion_Get
    \/ CheckDeletion_Listing
    \/ Delete_AfterCheckDeletion

\* The operations, their context never cancelled.
Spec == Init /\ [][Next]_vars

\* GroupResource.Delete with a context that may be cancelled: the handler
\* that goes through both waits, the sleep of HttpRetry and the select of
\* CheckDeletion.
CancelInit == Init /\ kind = "group" /\ op = "Delete"
CancelNext ==
    \/ Delete_Begin
    \/ HttpRetry_Attempt
    \/ HttpRetry_Sleep
    \/ Cancel_InSleep
    \/ Delete_AfterHttpRetry
    \/ Delete_Do
    \/ CheckDeletion_Advance
    \/ CheckDeletion_TickFire
    \/ Cancel_InSelect
    \/ CheckDeletion_Timeout
    \/ CheckDeletion_Tick
    \/ CheckDeletion_Get
    \/ Delete_AfterCheckDeletion
CancelSpec == CancelInit /\ [][CancelNext]_vars

\* Provider Configure under every provider block and environment, and the
\* requests sent afterwards through the client it built.
ProviderInit ==
    /\ data \in {d \in [ConfigFields -> UNION {BlockValues[f] : f \in ConfigFields}] :
                    \A f \in ConfigFields : d[f] \in BlockValues[f]}
    /\ environ \in {e \in [ConfigFields -> UNION {EnvValues[f] : f \in ConfigFields}] :
                       \A f \in ConfigFields : e[f] \in EnvValues[f]}
    /\ cfgPc = "Configure"
    /\ cfgDiags = << >>
    /\ ResourceData = << >>
    /\ DataSourceData = << >>
    /\ wire = << >>
    /\ NoCollection
    /\ NoHandler
ProviderNext == Configure \/ Client_Do
ProviderSpec == ProviderInit /\ [][ProviderNext]_vars

\* A collection is created and then read back, the API answering both
\* requests with the same JSON object.
RoundTripInit ==
    /\ plan \in Plans
    /\ api \in ApiObjects
    /\ state = << >>
    /\ created = << >>
    /\ mPc = "Create"
    /\ Unconfigured
    /\ NoHandler
RoundTripNext == Collection_Create \/ Collection_Read
RoundTripSpec == RoundTripInit /\ [][RoundTripNext]_vars

\* The scheduling CheckDeletion runs under: every GET is answered, time
\* passes and the ticker fires, a goroutine whose select has a ready case
\* runs, and a select that finds the timeout ready again and again takes it.
CheckDeletion_Select == CheckDeletion_Timeout \/ CheckDeletion_Tick

\* CollectionResource.Delete alone, its context never cancelled.  Its url
\* matches the pattern of CheckDeletion's 403 branch on an https host and
\* fails it on an http host, so both sides of that branch are taken.
CollectionDeleteInit == Init /\ kind = "collection" /\ op = "Delete"
CollectionDeleteNext ==
    \/ Delete_Begin
    \/ HttpRetryClient_Attempt
    \/ HttpRetryClient_Sleep
    \/ Delete_AfterHttpRetryClient
    \/ CheckDeletion_Advance
    \/ CheckDeletion_TickFire
    \/ CheckDeletion_Timeout
    \/ CheckDeletion_Tick
    \/ CheckDeletion_Get
    \/ CheckDeletion_Listing
    \/ Delete_AfterCheckDeletion
FairSpec ==
    /\ CollectionDeleteInit
    /\ [][CollectionDeleteNext]_vars
    /\ WF_vars(CheckDeletion_Get)
    /\ WF_vars(CheckDeletion_Listing)
    /\ WF_vars(CheckDeletion_Advance)
    /\ WF_vars(CheckDeletion_TickFire)
    /\ WF_vars(CheckDeletion_Select)
    /\ SF_vars(CheckDeletion_Timeout)

(* ------------------------------ properties ----------------------------- *)

\* HttpRetry(ctx, ...) is running or has just handed back its result.
InHttpRetry == pc \in {"HttpRetry", "HttpRetry_sleep", "HttpRetry_returned", "panic"}

IsStatus(o) == o.err = Nil
RateLimited(o) == o.err = Nil /\ o.status = StatusTooManyRequests

C2_AtMostNineAttempts ==
    InHttpRetry =>
        /\ Len(tried) <= attempts
        /\ (Len(tried) = attempts /\ RateLimited(tried[attempts])) =>
               pc \in {"HttpRetry_sleep", "HttpRetry_returned"}
        /\ (pc = "HttpRetry_returned" /\ RateLimited(tried[Len(tried)])) =>
               Len(tried) = attempts

C2_Witness ==
    /\ pc = "HttpRetry_returned"
    /\ Len(tried) = attempts
    /\ \A n \in 1..attempts : RateLimited(tried[n])

(* What the answers of one CheckDeletion call were. *)

Answered(k) == polls[k].ans # Pending
Is404(a) == a.err = Nil /\ a.resp.StatusCode = StatusNotFound
Is403(a) == a.err = Nil /\ a.resp.StatusCode = StatusForbidden
IsSoftDeleted(a) ==
    a.err = Nil /\ a.resp.StatusCode = StatusOK /\ a.resp.Body = "soft_deleted"
\* A 200 whose body is a JSON object with another state ("active", or none).
IsStillThere(a) ==
    a.err = Nil /\ a.resp.StatusCode = StatusOK /\ a.resp.Body \in {"active", "absent"}
IsActive(a) ==
    a.err = Nil /\ a.resp.StatusCode = StatusOK /\ a.resp.Body = "active"
IsListed(a) == a.err = Nil /\ a.resp.StatusCode = StatusOK

\* C3: a poll answered 404, or 200 with state "soft_deleted", ends
\* CheckDeletion with a nil error; a poll answered 200 with another state
\* leaves it polling: it returns to the select, and from the select a pending
\* tick (the timeout not yet due) issues the next GET.  So 200/"active"
\* followed by 404 is success after exactly two polls.
C3_PollTransitions ==
    /\ [](\A k \in 1..Len(polls) :
            /\ (Is404(polls[k].ans) \/ IsSoftDeleted(polls[k].ans)) =>
                   /\ k = Len(polls)
                   /\ cdPc = "returned"
                   /\ deletionErr = Nil
                   /\ listings = << >>
            /\ IsStillThere(polls[k].ans) =>
                   \/ k < Len(polls)
                   \/ cdPc = "select" /\ deletionErr = Nil
                   \/ cdPc = "returned" /\ deletionErr = ErrTimedOut)
    /\ [][(pc = "CheckDeletion" /\ cdPc = "select" /\ tickerC /\ ~timeout) =>
              (cdPc' = "Get" /\ Len(polls') = Len(polls) + 1 /\ ~tickerC')]_vars

C3_Witness ==
    /\ Len(polls) = 2
    /\ IsActive(polls[1].ans)
    /\ Is404(polls[2].ans)
    /\ cdPc = "returned"
    /\ deletionErr = Nil

\* C4: when every poll issued before the one-minute timeout fired answered
\* 200 with state "active", CheckDeletion ends with the timeout error, never
\* with success.
C4_AllActiveTimesOut ==
    (cdPc = "returned"
       /\ \A k \in 1..Len(polls) : ~polls[k].late => IsActive(polls[k].ans))
        => deletionErr = ErrTimedOut

\* What holds when the polls issued after the timeout fired are counted too:
\* a call all of whose polls answered 200 with state "active" ends with the
\* timeout error.
AllPollsActiveTimesOut ==
    (cdPc = "returned" /\ \A k \in 1..Len(polls) : IsActive(polls[k].ans))
        => deletionErr = ErrTimedOut

\* C5: no GET on resourceURL is issued once the timeout has fired.
C5_NoGetAfterTimeout ==
    \A k \in 1..Len(polls) : ~polls[k].late

\* The resource URL has the shape https://<host>/api/<workspace>/spaces/<token>:
\* it is the URL the collection handler builds for an https host.
IsCollectionURL == kind = "collection" /\ url.scheme = "https"
ParentListing ==
    [scheme |-> "https",
     segs |-> <<url.segs[1], "api", url.segs[3], "spaces?filter=all">>]

C7_OtherStatusErrors ==
    \A k \in 1..Len(polls) :
        (Answered(k) /\ polls[k].ans.err = Nil
           /\ polls[k].ans.resp.StatusCode \notin {StatusOK, StatusForbidden, StatusNotFound})
            => /\ k = Len(polls)
               /\ listings = << >>
               /\ cdPc = "returned"
               /\ deletionErr = ErrUnexpected
               /\ deletionErr # Nil

C7_Witness ==
    /\ Len(polls) = 2
    /\ polls[2].ans.err = Nil
    /\ polls[2].ans.resp.StatusCode = StatusTooManyRequests
    /\ cdPc = "returned"
    /\ deletionErr # Nil

\* The terminal states of CheckDeletion, told from the answers it received.
LastPoll == polls[Len(polls)].ans
ConfirmedDeleted ==
    /\ cdPc = "returned"
    /\ Len(polls) >= 1
    /\ \/ Is404(LastPoll)
       \/ IsSoftDeleted(LastPoll)
       \/ Is403(LastPoll) /\ Len(listings) = 1 /\ IsListed(listings[1].ans)
\* It returned out of the select: no poll, or the last poll had it go on polling.
TimedOut ==
    /\ cdPc = "returned"
    /\ Len(polls) >= 1 => IsStillThere(LastPoll)
\* The last poll failed, was undecodable, had an unexpected status, or was a
\* 403 that the listing did not clear.
Errored ==
    /\ cdPc = "returned"
    /\ Len(polls) >= 1
    /\ \/ LastPoll.err = TransportError
       \/ /\ LastPoll.err = Nil
          /\ LastPoll.resp.StatusCode \notin {StatusOK, StatusForbidden, StatusNotFound}
       \/ /\ LastPoll.err = Nil
          /\ LastPoll.resp.StatusCode = StatusOK
          /\ Decode(LastPoll.resp.Body).err # Nil
       \/ /\ Is403(LastPoll)
          /\ ~(Len(listings) = 1 /\ IsListed(listings[1].ans))
TransportFailed ==
    /\ cdPc = "returned"
    /\ Len(polls) >= 1
    /\ \/ LastPoll.err = TransportError
       \/ Len(listings) = 1 /\ listings[1].ans.err = TransportError

\* C8: CheckDeletion returns nil exactly in ConfirmedDeleted and a non-nil
\* error exactly in TimedOut and Errored; the timeout error is not the error
\* returned for a transport failure.
C8_ErrorIffNotConfirmed ==
    cdPc = "returned" =>
        /\ (deletionErr = Nil) <=> ConfirmedDeleted
        /\ (deletionErr # Nil) <=> (TimedOut \/ Errored)
        /\ TimedOut => deletionErr = ErrTimedOut
        /\ TransportFailed => deletionErr \in {ErrGet, ErrListing}
        /\ TransportFailed => deletionErr # ErrTimedOut

C8_Witness ==
    /\ TimedOut
    /\ Len(polls) >= 3
    /\ deletionErr = ErrTimedOut
    /\ pc = "done"
    /\ inState

\* C9: in every Delete handler CheckDeletion starts only after the DELETE
\* request has been answered 200, and with the URL the DELETE was sent to.
C9_CheckAfterDelete200 ==
    (op = "Delete" /\ cdPc # "idle") =>
        /\ sent.Method = MethodDelete
        /\ sent.URL = resourceURL
        /\ err = Nil
        /\ httpResp.StatusCode = StatusOK

\* C10: the resource leaves Terraform state only after the DELETE was
\* answered 200 and CheckDeletion returned nil; when CheckDeletion returns an
\* error the resource stays in state and an error diagnostic is added.
C10_RemovedOnlyAfterVerifiedDelete ==
    /\ (op = "Delete" /\ ~inState) =>
           /\ sent.Method = MethodDelete
           /\ httpResp.StatusCode = StatusOK
           /\ cdPc = "returned"
           /\ deletionErr = Nil
    /\ (pc = "done" /\ cdPc = "returned" /\ deletionErr # Nil) =>
           /\ inState
           /\ diags = <<DeletionErrorSummary(kind)>>

\* What holds of all five handlers whatever method went on the wire: the
\* request the handler sent was answered 200 before CheckDeletion started,
\* CheckDeletion got that request's URL, and the resource is removed only
\* after CheckDeletion returned nil.
DeleteOrderAndGuard ==
    /\ cdPc # "idle" =>
           /\ sent.URL = resourceURL
           /\ resourceURL = url
           /\ err = Nil
           /\ httpResp.StatusCode = StatusOK
    /\ (op = "Delete" /\ ~inState) =>
           (cdPc = "returned" /\ deletionErr = Nil /\ pc = "done")
    /\ (pc = "done" /\ cdPc = "returned" /\ deletionErr # Nil) =>
           (inState /\ diags = <<DeletionErrorSummary(kind)>>)

\* The handlers that send a request they built themselves send a DELETE.
DeleteSentByOwnRequest ==
    (op = "Delete" /\ kind \notin CtxKinds /\ sent # NilReq) =>
        sent.Method = MethodDelete

\* C11: when the operation's context is cancelled while CheckDeletion waits
\* between polls, CheckDeletion returns a cancellation error; when it is
\* cancelled while HttpRetry sleeps, HttpRetry returns a cancellation error.
C11_CancelAbortsWait ==
    /\ (cancelled = "CheckDeletion" /\ cdPc = "returned") =>
           deletionErr = ErrCanceled
    /\ (cancelled = "HttpRetry" /\ pc = "HttpRetry_returned") =>
           err = ErrCanceled

\* The refusal exit of a handler: its request was answered with a response
\* whose status is not 200.
RefusedExit ==
    /\ pc = "done"
    /\ op # "Read"
    /\ err = Nil
    /\ httpResp # NilResp
    /\ httpResp.StatusCode # StatusOK

\* C12: every response body handed to a handler or to CheckDeletion is closed
\* exactly once by the time the operation ends, on every exit path.
C12_BodiesClosedOnce ==
    /\ closed <= opened
    /\ pc = "done" => closed = opened

\* What holds of the bodies: none is closed twice, CheckDeletion has closed
\* every body it received when it returns, and an operation that ends
\* anywhere but at its refusal exit has closed them all.
BodiesClosedUnlessRefused ==
    /\ closed <= opened
    /\ (pc = "CheckDeletion" /\ cdPc = "returned") =>
           (closed = CdDeferred(polls, listings) /\ opened = closed + deferred)
    /\ (pc = "done" /\ ~RefusedExit) => closed = opened
    /\ RefusedExit => opened = closed + 1

\* C13: when all nine attempts of HttpRetry answer 429, it returns the value
\* of the ninth attempt, whose status reads 429, with a nil error.
C13_ExhaustedReturnsLast429 ==
    (pc = "HttpRetry_returned" /\ Len(tried) = attempts
       /\ \A n \in 1..attempts : RateLimited(tried[n]))
        => /\ err = Nil
           /\ httpReq # NilReq
           /\ httpReq.StatusCode = tried[attempts].status
           /\ httpReq.StatusCode = StatusTooManyRequests

C13_Witness ==
    /\ op = "Update"
    /\ pc = "HttpRetry_returned"
    /\ Len(tried) = attempts
    /\ RateLimited(tried[attempts])
    /\ httpReq.StatusCode = StatusTooManyRequests
    /\ err = Nil

\* C14: when an attempt of HttpRetry fails to construct or send its request,
\* HttpRetry makes no further attempt and returns a non-nil error.
C14_FailedAttemptReturnsError ==
    (InHttpRetry /\ \E n \in 1..Len(tried) : tried[n].err # Nil)
        => /\ tried[Len(tried)].err # Nil
           /\ pc = "HttpRetry_returned"
           /\ err # Nil

\* C15: the request HttpRetry builds carries the method, the URL and the
\* body its caller supplied, and so does the request the caller then sends.
C15_RequestCarriesCallerArguments ==
    /\ (InHttpRetry /\ httpReq # NilReq) =>
           /\ httpReq.Method = MethodOf(op)
           /\ httpReq.URL = url
           /\ httpReq.Body = BodyOf(op)
    /\ (Path(kind, op) = "ctx" /\ sent # NilReq) =>
           /\ sent.Method = MethodOf(op)
           /\ sent.Body = BodyOf(op)

\* C16: a handler reports the failure of its request on a 429 answer only
\* after the request was retried until the attempt budget was used up.
C16_RateLimitRetriedBeforeFailure ==
    [][(pc \in {"Do", "HttpRetryClient_returned"} /\ pc' = "done"
          /\ err' = Nil /\ httpResp'.StatusCode = StatusTooManyRequests
          /\ Len(diags') > Len(diags))
         => Len(tried) = attempts]_vars

\* What holds of the handlers that call HttpRetry(r.client, httpReq): they
\* report a 429 only after the ninth attempt.
ClientFormRetriesRateLimit ==
    [][(pc = "HttpRetryClient_returned" /\ pc' = "done"
          /\ err' = Nil /\ httpResp'.StatusCode = StatusTooManyRequests)
         => Len(tried) = attempts]_vars

\* A 200 whose body is not a JSON object, or whose "state" is not a string.
IsUndecodable(a) ==
    a.err = Nil /\ a.resp.StatusCode = StatusOK
        /\ a.resp.Body \in {"malformed", "nonstring"}

C19_TransportFailureEndsCheck ==
    /\ \A k \in 1..Len(polls) :
           polls[k].ans.err = TransportError =>
               /\ k = Len(polls)
               /\ listings = << >>
               /\ cdPc = "returned"
               /\ deletionErr = ErrGet
    /\ \A k \in 1..Len(listings) :
           listings[k].ans.err = TransportError =>
               /\ k = Len(listings)
               /\ Is403(LastPoll)
               /\ cdPc = "returned"
               /\ deletionErr = ErrListing
    /\ ErrGet # Nil /\ ErrListing # Nil

C19_Witness ==
    /\ Len(polls) = 2
    /\ Is403(polls[2].ans)
    /\ Len(listings) = 1
    /\ listings[1].ans.err = TransportError
    /\ cdPc = "returned"
    /\ deletionErr = ErrListing

\* C20: a Read handler whose GET on the resource is answered 404 removes the
\* resource from state, sets no state and adds no diagnostic.
C20_ReadNotFoundRemoves ==
    (op = "Read" /\ pc = "done" /\ err = Nil
       /\ httpResp.StatusCode = StatusNotFound)
        => /\ ~inState
           /\ ~stateSet
           /\ diags = << >>

C20_Witness ==
    /\ op = "Read"
    /\ kind = "data_source_permission"
    /\ pc = "done"
    /\ httpResp.StatusCode = StatusNotFound
    /\ ~inState
    /\ diags = << >>

C24_ForbiddenClearedOnlyByListing ==
    (cdPc = "returned" /\ deletionErr = Nil
       /\ \E k \in 1..Len(polls) : Is403(polls[k].ans))
        => /\ Is403(LastPoll)
           /\ Len(listings) = 1
           /\ listings[1].URL = ListingURL(resourceURL)
           /\ listings[1].ans.err = Nil
           /\ listings[1].ans.resp.StatusCode = StatusOK

C24_Witness ==
    /\ pc = "done"
    /\ ~inState
    /\ Len(polls) = 2
    /\ Is403(polls[2].ans)
    /\ Len(listings) = 1
    /\ IsListed(listings[1].ans)

\* C25: one CheckDeletion call issues at most 6 GETs on the resource URL and
\* at most 1 GET on the collection listing, and no GET before the first tick.
C25_AtMostSixPolls ==
    /\ Len(polls) <= TimeoutTicks
    /\ Len(listings) <= 1
    /\ (Len(polls) >= 1) => now >= 1

\* What holds of the number of requests: at most one GET on the listing, no
\* GET before the first tick, at most one GET per tick, and at most five GETs
\* issued before the timeout fired.
PollsBeforeTimeoutBounded ==
    /\ Len(listings) <= 1
    /\ (Len(polls) >= 1) => now >= 1
    /\ Len(polls) <= now
    /\ Cardinality({ k \in 1..Len(polls) : ~polls[k].late }) <= TimeoutTicks - 1

\* C26: after a poll answered 403 CheckDeletion never polls again: it is in
\* the listing call or has returned, and a listing answer other than 200
\* (a 429 among them) makes it return an error.
C26_ForbiddenIsTerminal ==
    /\ [](\A k \in 1..Len(polls) :
            Is403(polls[k].ans) =>
                /\ k = Len(polls)
                /\ cdPc \in {"Do", "returned"}
                /\ (Len(listings) = 1 /\ listings[1].ans # Pending
                      /\ ~IsListed(listings[1].ans)) =>
                       (cdPc = "returned" /\ deletionErr = ErrListing))
    /\ [][(pc = "CheckDeletion" /\ cdPc = "Do") =>
              (cdPc' \in {"Do", "returned"} /\ polls' = polls
                 /\ Len(listings') = Len(listings))]_vars

C26_Witness ==
    /\ Len(polls) = 1
    /\ Is403(polls[1].ans)
    /\ Len(listings) = 1
    /\ listings[1].ans.err = Nil
    /\ listings[1].ans.resp.StatusCode = StatusTooManyRequests
    /\ cdPc = "returned"
    /\ deletionErr = ErrListing

\* C27: HttpRetry has completed one wait for every attempt that answered
\* 429 when it makes its next attempt or returns: a call that exhausts its
\* budget returns after nine waits.
C27_WaitsAfterEvery429 ==
    /\ pc \in {"HttpRetry", "HttpRetry_returned"} =>
           slept = Cardinality({ n \in 1..Len(tried) : RateLimited(tried[n]) })
    /\ (pc = "HttpRetry_returned" /\ Len(tried) = attempts
          /\ RateLimited(tried[attempts])) => slept = attempts

C27_Witness ==
    /\ pc = "HttpRetry_returned"
    /\ Len(tried) = attempts
    /\ RateLimited(tried[attempts])
    /\ slept = attempts
    /\ op = "Delete"

\* C28: a Delete handler whose request was answered by a transport error or
\* by a status other than 200 adds one error diagnostic, does not start
\* CheckDeletion and leaves the resource in state.
C28_RefusedDeleteKeepsState ==
    (op = "Delete" /\ sent # NilReq /\ pc \in {"done", "CheckDeletion"}
       /\ (err # Nil \/ httpResp.StatusCode # StatusOK))
        => /\ pc = "done"
           /\ cdPc = "idle"
           /\ polls = << >>
           /\ inState
           /\ diags = <<"Client Error">>

C28_Witness ==
    /\ op = "Delete"
    /\ kind = "collection"
    /\ pc = "done"
    /\ httpResp.StatusCode = StatusNotFound
    /\ inState
    /\ diags = <<"Client Error">>

\* The body of a 200 answer decodes.
Decodable(resp) == resp.Body \in {"soft_deleted", "active", "absent"}
\* The handler's request has been answered.
CUAnswered == op \in {"Create", "Update"} /\ pc = "done" /\ sent # NilReq

\* C29: a Create or Update handler sets state only after its request was
\* answered 200 with a body that decoded; on a transport error, another
\* status or a decode error it adds an error diagnostic and leaves state as
\* it was.
C29_StateSetOnlyAfterDecoded200 ==
    /\ (op \in {"Create", "Update"} /\ stateSet) =>
           /\ err = Nil
           /\ httpResp.StatusCode = StatusOK
           /\ Decodable(httpResp)
           /\ diags = << >>
    /\ (CUAnswered
          /\ (err # Nil \/ httpResp.StatusCode # StatusOK \/ ~Decodable(httpResp))) =>
           /\ ~stateSet
           /\ inState = (op # "Create")
           /\ diags = <<"Client Error">>

C29_Witness ==
    /\ op = "Create"
    /\ kind = "collection"
    /\ pc = "done"
    /\ httpResp.StatusCode = StatusOK
    /\ httpResp.Body = "malformed"
    /\ ~stateSet
    /\ ~inState
    /\ diags = <<"Client Error">>

\* The listing of the workspace's collections, from the handler's url.
WorkspaceListing ==
    [scheme |-> url.scheme,
     segs |-> <<url.segs[1], "api", url.segs[3], "spaces?filter=all">>]

Preferred(f) == IF data[f] = Null THEN environ[f] ELSE data[f]

\* C21: provider Configure uses, for each of host, API token, API secret
\* and workspace id, the value of the provider block in preference to the
\* MODE_ANALYTICS_* environment variable; if any of the four resolved
\* values is empty it reports a fatal error and hands no client or
\* configuration to resources or data sources.
C21_BlockBeforeEnvironmentOrError ==
    /\ cfgPc \in {"Configure", "unread"} => ResourceData = << >> /\ DataSourceData = << >>
    /\ cfgPc = "configured" =>
          /\ \A f \in ConfigFields : Preferred(f) # ""
          /\ cfgDiags = << >>
          /\ \A d \in {ResourceData, DataSourceData} :
                /\ Len(d) = 1
                /\ d[1].ModeHost = Preferred("ModeHost")
                /\ d[1].WorkspaceId = Preferred("WorkspaceId")
                /\ d[1].Client.Transport.apiToken = Preferred("ApiToken")
                /\ d[1].Client.Transport.apiSecret = Preferred("ApiSecret")
    /\ cfgPc = "failed" =>
          /\ \E f \in ConfigFields : Preferred(f) = ""
          /\ cfgDiags = <<ErrMissingConfiguration>>
          /\ ResourceData = << >>
          /\ DataSourceData = << >>

\* Configure succeeded on a block value that differs from the environment's,
\* and another setting came from the environment.
C21_Witness ==
    /\ cfgPc = "configured"
    /\ data.ApiToken = "block-token"
    /\ environ.ApiToken = "env-token"
    /\ data.ModeHost = Null
    /\ ResourceData[1].ModeHost = "https://env.mode.com"

\* Configure failed although the environment held all four settings: the
\* provider block set one of them to "".
ConfigureFailedOnEmptyBlockValue ==
    /\ cfgPc = "failed"
    /\ \A f \in ConfigFields : environ[f] # ""
    /\ \E f \in ConfigFields : data[f] = ""

\* C22: every request sent through the shared client, the polls and the
\* listing call of CheckDeletion included, carries HTTP Basic credentials
\* built from the configured token and secret, and the headers
\* Content-Type: application/json and Accept: application/hal+json.
C22_EveryRequestCarriesCredentialsAndHeaders ==
    \A n \in 1..Len(wire) :
        /\ wire[n].Header.Authorization
             = BasicAuth(Preferred("ApiToken"), Preferred("ApiSecret"))
        /\ wire[n].Header.ContentType = "application/json"
        /\ wire[n].Header.Accept = "application/hal+json"

\* A poll of CheckDeletion and its listing call were sent, with
\* credentials that came one from the block and one from the environment.
C22_Witness ==
    /\ Len(wire) = 2
    /\ wire[1].site = "CheckDeletion client.Get"
    /\ wire[2].site = "CheckDeletion client.Do"
    /\ wire[2].Header.Authorization = <<"Basic", "block-token", "env-secret">>

(* -------------------- collection: Create, then Read -------------------- *)

\* C23: when Create succeeds and Read is then answered with the same JSON
\* object, the state written by Read (if it writes one) equals the state written by Create
\* field for field (name, state, collection_type, description, restricted,
\* free_default, viewable, default_access_level, collection_token, id).
C23_ReadStateEqualsCreateState ==
    mPc = "read" /\ state # << >> => state = created

\* The attributes both handlers take from the response, and the token and
\* id Read keeps, do agree whenever Read writes the state.
ReadAgreesOnResponseAttributes ==
    mPc = "read" /\ state # << >> =>
        \A f \in {"State", "Restricted", "FreeDefault", "Viewable",
                   "DefaultAccessLevel", "CollectionToken", "Id"} :
            state[1][f] = created[1][f]

\* The two states are equal when the API object repeats the planned name,
\* type and description and the collection is not soft deleted.
ReadEqualsCreateWhenApiRepeatsPlan ==
    /\ mPc = "read"
    /\ api.State # "soft_deleted"
    /\ api.Name = plan.Name
    /\ api.CollectionType = plan.CollectionType
    /\ api.Description = plan.Description
    => state = created

\* Read wrote a state whose name is not the one Create wrote.
ReadRenamed ==
    /\ mPc = "read"
    /\ state # << >>
    /\ state[1].Name # created[1].Name

====
